---- MODULE Spec2Model ----
(***************************************************************************)
(* FusedAggregation (torch_geometric/nn/aggr/fused.py): the plan built by  *)
(* __init__ and the step-by-step execution of forward.                     *)
(*                                                                         *)
(* Positions are 1-based here (Python position i is i+1).  Tensor entries  *)
(* are exact rationals; +inf/-inf fill values and the square root taken by *)
(* StdAggregation are kept symbolically, so floating-point rounding is not *)
(* part of the model.                                                      *)
(***************************************************************************)
EXTENDS Integers, Sequences, FiniteSets, TLC

\* ------------------------------------------------------------------ bounds
MaxAggrs == 2   \* longest list handed to __init__
MaxN == 2       \* most rows of x / entries of index
MaxG == 2       \* largest dim_size
MaxF == 1       \* widest feature row
MaxCalls == 2   \* forward invocations followed on one engine

\* Entries the feature rows are drawn from.
Vals == {-1, 2}
\* x.dim() of the tensors handed to forward.
XDims == {2, 3}

\* ------------------------------------------------------- aggregation kinds
SumAggregation == "Sum"
MeanAggregation == "Mean"
MinAggregation == "Min"
MaxAggregation == "Max"
MulAggregation == "Mul"
VarAggregation == "Var"
StdAggregation == "Std"
\* An Aggregation subclass that scatter directives cannot fuse.
MedianAggregation == "Median"

FUSABLE_AGGRS ==
  {SumAggregation, MeanAggregation, MinAggregation, MaxAggregation,
   MulAggregation, VarAggregation, StdAggregation}

DEGREE_BASED_AGGRS == {MeanAggregation, VarAggregation, StdAggregation}

MASK_REQUIRED_AGGRS == {MinAggregation, MaxAggregation, MulAggregation}

REDUCE ==
  [cls \in FUSABLE_AGGRS |->
     CASE cls = SumAggregation -> "sum"
       [] cls = MeanAggregation -> "sum"
       [] cls = MinAggregation -> "amin"
       [] cls = MaxAggregation -> "amax"
       [] cls = MulAggregation -> "prod"
       [] cls = VarAggregation -> "pow_sum"
       [] cls = StdAggregation -> "pow_sum"]

AllAggrs == FUSABLE_AGGRS \cup {MedianAggregation}

\* Python's None, for a reduce op and for a lookup entry.
NoneOp == "None"
NoneLookup == [cls |-> "None", j |-> 0]

\* ------------------------------------------------------------ tensor entries
RECURSIVE GCD(_, _)
GCD(a, b) == IF b = 0 THEN a ELSE GCD(b, a % b)

Abs(a) == IF a < 0 THEN -a ELSE a

\* The rational n/d (d > 0) in lowest terms.
Num(n, d) ==
  LET g == GCD(Abs(n), d)
  IN [t |-> "num", n |-> n \div g, d |-> d \div g]

Zero == Num(0, 1)
One == Num(1, 1)
PosInf == [t |-> "inf", n |-> 1, d |-> 0]
NegInf == [t |-> "inf", n |-> -1, d |-> 0]
\* float 1e-5
Eps == Num(1, 100000)

VAdd(a, b) ==
  IF a.t = "inf" THEN a
  ELSE IF b.t = "inf" THEN b
  ELSE Num(a.n * b.d + b.n * a.d, a.d * b.d)

VNeg(a) == [a EXCEPT !.n = -a.n]

VSub(a, b) == VAdd(a, VNeg(b))

VMul(a, b) ==
  IF a.t = "inf" \/ b.t = "inf"
    THEN [t |-> "inf", n |-> IF (a.n < 0) = (b.n < 0) THEN 1 ELSE -1, d |-> 0]
    ELSE Num(a.n * b.n, a.d * b.d)

\* a / c for a count c >= 1.
VDiv(a, c) == IF a.t = "inf" THEN a ELSE Num(a.n, a.d * c)

VLeq(a, b) ==
  IF a.t = "inf" THEN (a.n < 0 \/ (b.t = "inf" /\ b.n > 0))
  ELSE IF b.t = "inf" THEN b.n > 0
  ELSE a.n * b.d <= b.n * a.d

VMin(a, b) == IF VLeq(a, b) THEN a ELSE b

VMax(a, b) == IF VLeq(a, b) THEN b ELSE a

VRelu(a) == IF VLeq(a, Zero) THEN Zero ELSE a

\* sqrt of a non-negative entry, kept symbolic unless it is exactly 0.
VSqrt(a) ==
  IF a.t = "inf" THEN a
  ELSE IF a.n = 0 THEN Zero
  ELSE [t |-> "sqrt", n |-> a.n, d |-> a.d]

\* ------------------------------------------------------------ plan builder
Range(s) == {s[i] : i \in DOMAIN s}

Last(s, cls) == CHOOSE i \in DOMAIN s :
                  s[i] = cls /\ \A k \in DOMAIN s : s[k] = cls => k <= i

\* {cls: i for i, cls in enumerate(self.aggr_cls)}: the last position wins.
AggrIndex(aggr_cls) == [cls \in Range(aggr_cls) |-> Last(aggr_cls, cls)]

NotFusable(aggr_cls) == \E i \in DOMAIN aggr_cls : aggr_cls[i] \notin FUSABLE_AGGRS

\* ConstructFails without the test for an empty list.
ConstructFails_NoEmptyCheck(aggrs) == NotFusable(aggrs)

\* The two raises of __init__ that depend on the list's content.
ConstructFails(aggrs) == Len(aggrs) = 0 \/ NotFusable(aggrs)

NeedDegree(aggr_cls) == \E i \in DOMAIN aggr_cls : aggr_cls[i] \in DEGREE_BASED_AGGRS

RequiresMask(aggr_cls) == \E i \in DOMAIN aggr_cls : aggr_cls[i] \in MASK_REQUIRED_AGGRS

Lookup(aggr_cls, cls) == [cls |-> cls, j |-> AggrIndex(aggr_cls)[cls]]

\* The entry appended to self.reduce_ops for one requested class.
ReduceOp(aggr_cls, cls) ==
  LET has == Range(aggr_cls)
  IN CASE cls = MeanAggregation ->
            IF SumAggregation \in has THEN NoneOp ELSE REDUCE[cls]
       [] cls = StdAggregation ->
            IF VarAggregation \in has THEN NoneOp ELSE REDUCE[cls]
       [] OTHER -> REDUCE[cls]

\* LookupOp with the MeanAggregation branch of StdAggregation left out.
LookupOp_StdSkipsMean(aggr_cls, cls) ==
  LET has == Range(aggr_cls)
  IN CASE cls = MeanAggregation ->
            IF SumAggregation \in has THEN Lookup(aggr_cls, SumAggregation)
            ELSE NoneLookup
       [] cls = VarAggregation ->
            IF MeanAggregation \in has THEN Lookup(aggr_cls, MeanAggregation)
            ELSE IF SumAggregation \in has THEN Lookup(aggr_cls, SumAggregation)
            ELSE NoneLookup
       [] cls = StdAggregation ->
            IF VarAggregation \in has THEN Lookup(aggr_cls, VarAggregation)
            ELSE IF SumAggregation \in has THEN Lookup(aggr_cls, SumAggregation)
            ELSE NoneLookup
       [] OTHER -> NoneLookup

\* The entry appended to self.lookup_ops for one requested class.
LookupOp(aggr_cls, cls) ==
  LET has == Range(aggr_cls)
  IN CASE cls = MeanAggregation ->
            IF SumAggregation \in has THEN Lookup(aggr_cls, SumAggregation)
            ELSE NoneLookup
       [] cls = VarAggregation ->
            IF MeanAggregation \in has THEN Lookup(aggr_cls, MeanAggregation)
            ELSE IF SumAggregation \in has THEN Lookup(aggr_cls, SumAggregation)
            ELSE NoneLookup
       [] cls = StdAggregation ->
            IF VarAggregation \in has THEN Lookup(aggr_cls, VarAggregation)
            ELSE IF MeanAggregation \in has THEN Lookup(aggr_cls, MeanAggregation)
            ELSE IF SumAggregation \in has THEN Lookup(aggr_cls, SumAggregation)
            ELSE NoneLookup
       [] OTHER -> NoneLookup

ReduceOps(aggr_cls) == [i \in DOMAIN aggr_cls |-> ReduceOp(aggr_cls, aggr_cls[i])]

LookupOps(aggr_cls) == [i \in DOMAIN aggr_cls |-> LookupOp(aggr_cls, aggr_cls[i])]

\* ------------------------------------------------------ tensor primitives
\* A dim_size x num_feats tensor filled with one value (new_full, new_zeros).
Full(dim_size, num_feats, fill) == [g \in 1..dim_size |-> [c \in 1..num_feats |-> fill]]

\* a - b, entry by entry.
MSub(a, b) == [g \in DOMAIN a |-> [c \in DOMAIN a[g] |-> VSub(a[g][c], b[g][c])]]

\* a * a, entry by entry.
MSquare(a) == [g \in DOMAIN a |-> [c \in DOMAIN a[g] |-> VMul(a[g][c], a[g][c])]]

\* a / count with count viewed as a column (count.view(-1, 1)).
MDivCount(a, cnt) == [g \in DOMAIN a |-> [c \in DOMAIN a[g] |-> VDiv(a[g][c], cnt[g])]]

\* Every entry of index names a row of a tensor with dim_size rows.
IndexInRange(index, dim_size) == \A r \in DOMAIN index : index[r] \in 0..(dim_size - 1)

\* index.view(-1, 1).expand(-1, num_feats)
Expand(index, num_feats) == [r \in DOMAIN index |-> [c \in 1..num_feats |-> index[r]]]

\* The binary operation behind a `reduce` option of scatter_reduce_.
Combine(reduce, a, b) ==
  CASE reduce = "sum" -> VAdd(a, b)
    [] reduce = "amin" -> VMin(a, b)
    [] reduce = "amax" -> VMax(a, b)
    [] reduce = "prod" -> VMul(a, b)

RECURSIVE ScatterCell(_, _, _, _, _, _, _)
\* Entry (g, c) of out after rows r..Len(index_e) of src have been scattered.
ScatterCell(acc, index_e, src, reduce, g, c, r) ==
  IF r > Len(index_e) THEN acc
  ELSE ScatterCell(IF index_e[r][c] = g - 1 THEN Combine(reduce, acc, src[r][c]) ELSE acc,
                   index_e, src, reduce, g, c, r + 1)

\* torch rejects an index with more rows than src, or an entry outside out.
ScatterFails(index_e, src, dim_size) ==
  \/ Len(index_e) > Len(src)
  \/ \E r \in DOMAIN index_e : \E c \in DOMAIN index_e[r] :
       index_e[r][c] \notin 0..(dim_size - 1)

\* out.scatter_reduce_(0, index, src, reduce, include_self=True)
ScatterReduce(out, index_e, src, reduce) ==
  [g \in DOMAIN out |->
     [c \in DOMAIN out[g] |-> ScatterCell(out[g][c], index_e, src, reduce, g, c, 1)]]

\* count.scatter_add_(0, index, x.new_ones(x.size(0))) on a zero vector.
Degree(index, dim_size) ==
  [g \in 1..dim_size |-> Cardinality({r \in DOMAIN index : index[r] = g - 1})]

\* count.clamp_(min=1)
Clamp(cnt) == [g \in DOMAIN cnt |-> IF cnt[g] < 1 THEN 1 ELSE cnt[g]]

\* MaskFromCount taken after count.clamp_(min=1).
MaskFromCount_AfterClamp(cnt) == [g \in DOMAIN cnt |-> Clamp(cnt)[g] = 0]

\* mask = count == 0
MaskFromCount(cnt) == [g \in DOMAIN cnt |-> cnt[g] = 0]

\* mask = x.new_ones(dim_size, dtype=torch.bool); mask[index] = False
MaskFromIndex(index, dim_size) ==
  [g \in 1..dim_size |-> \A r \in DOMAIN index : index[r] # g - 1]

\* out.masked_fill(mask.view(-1, 1), 0.0)
MaskedFill(out, mask) ==
  [g \in DOMAIN out |-> [c \in DOMAIN out[g] |-> IF mask[g] THEN Zero ELSE out[g][c]]]

FillValue(reduce) ==
  CASE reduce = "amin" -> PosInf
    [] reduce = "amax" -> NegInf
    [] reduce = "prod" -> One
    [] OTHER -> Zero

\* ----------------------------------------------------- locals of forward
\* A local that is not bound yet, and an entry of outs that is None.
Unset == [set |-> FALSE, v |-> <<>>]
Bound(v) == [set |-> TRUE, v |-> v]

\* Lines 158-167: the degree count and the mask of empty rows.
GroupStats(need_degree, requires_mask, x, index, dim_size) ==
  IF need_degree THEN
    IF Len(index) > Len(x.rows) \/ ~IndexInRange(index, dim_size)
      THEN [err |-> "RuntimeError", count |-> Unset, mask |-> Unset]
      ELSE [err |-> "",
            count |-> Bound(Clamp(Degree(index, dim_size))),
            mask |-> IF requires_mask
                       THEN Bound(MaskFromCount(Degree(index, dim_size)))
                       ELSE Unset]
  ELSE IF requires_mask THEN
    IF ~IndexInRange(index, dim_size)
      THEN [err |-> "IndexError", count |-> Unset, mask |-> Unset]
      ELSE [err |-> "", count |-> Unset,
            mask |-> Bound(MaskFromIndex(index, dim_size))]
  ELSE [err |-> "", count |-> Unset, mask |-> Unset]

\* src = x * x if reduce == 'pow_sum' else x
Src(reduce, x) == IF reduce = "pow_sum" THEN MSquare(x.rows) ELSE x.rows

\* reduce = 'sum' if reduce == 'pow_sum' else reduce
Directive(reduce) == IF reduce = "pow_sum" THEN "sum" ELSE reduce

\* One iteration of the loop over self.reduce_ops (lines 177-198): the
\* entry appended to outs, or the exception the iteration ends with.
BaseOut(reduce, x, index_e, mask, dim_size) ==
  IF reduce = NoneOp THEN [err |-> "", slot |-> Unset]
  ELSE IF ScatterFails(index_e, Src(reduce, x), dim_size)
    THEN [err |-> "RuntimeError", slot |-> Unset]
  ELSE LET fill_value == FillValue(Directive(reduce))
           out == ScatterReduce(Full(dim_size, x.F, fill_value), index_e,
                                Src(reduce, x), Directive(reduce))
       IN IF fill_value = Zero THEN [err |-> "", slot |-> Bound(out)]
          ELSE IF ~mask.set THEN [err |-> "UnboundLocalError", slot |-> Unset]
          ELSE [err |-> "", slot |-> Bound(MaskedFill(out, mask.v))]

\* ------------------------------------------------------ derivation stage
\* What one derivation step leaves behind: the exception it ended with (if
\* any), outs, the entries of outs it read through a lookup, and the number
\* of scatter passes it ran itself.
StepRes(err, outs, reads, sums) == [err |-> err, outs |-> outs, reads |-> reads, sums |-> sums]

Read(by, lk, outs) == {[by |-> by, cls |-> lk.cls, j |-> lk.j, slot |-> outs[lk.j]]}

\* mean = x.new_zeros(dim_size, num_feats); mean.scatter_reduce_(...); mean / count
OwnMean(x, index_e, cnt, dim_size) ==
  MDivCount(ScatterReduce(Full(dim_size, x.F, Zero), index_e, x.rows, "sum"), cnt)

\* (pow_sum / count) - (mean * mean)
VarOf(pow_sum, cnt, mean) == MSub(MDivCount(pow_sum, cnt), MSquare(mean))

StdEntry(v) == VSqrt(VAdd(VRelu(v), Eps))

\* (var.relu() + 1e-5).sqrt()
StdOf(var) == [g \in DOMAIN var |-> [c \in DOMAIN var[g] |-> StdEntry(var[g][c])]]

\* MeanRes that divides only a looked-up sum and leaves its own sum as it is.
MeanRes_OwnSumUndivided(aggr_index, lookup_ops, outs, count) ==
  IF MeanAggregation \notin DOMAIN aggr_index THEN StepRes("", outs, {}, 0)
  ELSE LET i == aggr_index[MeanAggregation]
           lk == lookup_ops[i]
       IN IF lk = NoneLookup THEN StepRes("", outs, {}, 0)
          ELSE StepRes("", [outs EXCEPT ![i] = Bound(MDivCount(outs[lk.j].v, count.v))],
                       Read("Mean", lk, outs), 0)

\* Lines 203-212.
MeanRes(aggr_index, lookup_ops, outs, count) ==
  IF MeanAggregation \notin DOMAIN aggr_index THEN StepRes("", outs, {}, 0)
  ELSE LET i == aggr_index[MeanAggregation]
           lk == lookup_ops[i]
           sum_ == IF lk = NoneLookup THEN outs[i] ELSE outs[lk.j]
       IN IF lk # NoneLookup /\ lk.cls # SumAggregation
            THEN StepRes("AssertionError", outs, {}, 0)
          ELSE IF ~count.set THEN StepRes("UnboundLocalError", outs, {}, 0)
          ELSE IF ~sum_.set THEN StepRes("TypeError", outs, {}, 0)
          ELSE StepRes("", [outs EXCEPT ![i] = Bound(MDivCount(sum_.v, count.v))],
                       IF lk = NoneLookup THEN {} ELSE Read("Mean", lk, outs), 0)

\* MeanFor that takes a looked-up sum for the mean without dividing it.
MeanFor_SumUndivided(lk, outs, count, x, index_e, dim_size) ==
  IF lk = NoneLookup THEN OwnMean(x, index_e, count.v, dim_size)
  ELSE outs[lk.j].v

\* The mean a Var or Std step works with (lines 217-228, 237-253), for a
\* lookup that is None, Sum or Mean.
MeanFor(lk, outs, count, x, index_e, dim_size) ==
  IF lk = NoneLookup THEN OwnMean(x, index_e, count.v, dim_size)
  ELSE IF lk.cls = SumAggregation THEN MDivCount(outs[lk.j].v, count.v)
  ELSE outs[lk.j].v

\* The exception a Var or Std step ends with before it writes outs[i].
DeriveErr(lk, outs, i, count, x, index_e, dim_size, known) ==
  IF lk # NoneLookup /\ lk.cls \notin known THEN "NotImplementedError"
  ELSE IF lk = NoneLookup /\ ScatterFails(index_e, x.rows, dim_size) THEN "RuntimeError"
  ELSE IF ~count.set THEN "UnboundLocalError"
  ELSE IF lk # NoneLookup /\ ~outs[lk.j].set THEN "TypeError"
  ELSE IF (lk = NoneLookup \/ lk.cls # VarAggregation) /\ ~outs[i].set THEN "TypeError"
  ELSE ""

\* Lines 215-231.
VarRes(aggr_index, lookup_ops, outs, count, x, index_e, dim_size) ==
  IF VarAggregation \notin DOMAIN aggr_index THEN StepRes("", outs, {}, 0)
  ELSE LET i == aggr_index[VarAggregation]
           lk == lookup_ops[i]
           err == DeriveErr(lk, outs, i, count, x, index_e, dim_size,
                            {SumAggregation, MeanAggregation})
           sums == IF lk = NoneLookup THEN 1 ELSE 0
       IN IF err # "" THEN StepRes(err, outs, {}, 0)
          ELSE StepRes("",
                 [outs EXCEPT ![i] = Bound(VarOf(outs[i].v, count.v,
                                     MeanFor(lk, outs, count, x, index_e, dim_size)))],
                 IF lk = NoneLookup THEN {} ELSE Read("Var", lk, outs), sums)

\* Lines 234-258.
StdRes(aggr_index, lookup_ops, outs, count, x, index_e, dim_size) ==
  IF StdAggregation \notin DOMAIN aggr_index THEN StepRes("", outs, {}, 0)
  ELSE LET i == aggr_index[StdAggregation]
           lk == lookup_ops[i]
           err == DeriveErr(lk, outs, i, count, x, index_e, dim_size,
                            {VarAggregation, SumAggregation, MeanAggregation})
           sums == IF lk = NoneLookup THEN 1 ELSE 0
           var == IF lk # NoneLookup /\ lk.cls = VarAggregation THEN outs[lk.j].v
                  ELSE VarOf(outs[i].v, count.v,
                             MeanFor(lk, outs, count, x, index_e, dim_size))
       IN IF err # "" THEN StepRes(err, outs, {}, 0)
          ELSE StepRes("", [outs EXCEPT ![i] = Bound(StdOf(var))],
                       IF lk = NoneLookup THEN {} ELSE Read("Std", lk, outs), sums)

\* ------------------------------------------------------------- assembly
RECURSIVE CatRow(_, _, _)
\* Row g of the blocks i..Len(outs), side by side.
CatRow(outs, g, i) ==
  IF i > Len(outs) THEN <<>> ELSE outs[i].v[g] \o CatRow(outs, g, i + 1)

\* torch.cat(outs, dim=-1): it takes tensors only, and at least one.
CatFails(outs) == Len(outs) = 0 \/ \E i \in DOMAIN outs : ~outs[i].set

Cat(outs, dim_size) == [g \in 1..dim_size |-> CatRow(outs, g, 1)]

\* ------------------------------------------------- forward as a function
\* What forward(x, index, dim_size=dim_size) of an engine built from
\* aggr_cls ends with: the exception, or the blocks and their concatenation.
Forward(aggr_cls_, x_, index_, dim_size_) ==
  LET aggr_index_ == AggrIndex(aggr_cls_)
      red == ReduceOps(aggr_cls_)
      lks == LookupOps(aggr_cls_)
      st == GroupStats(NeedDegree(aggr_cls_), RequiresMask(aggr_cls_), x_, index_, dim_size_)
      ie == Expand(index_, x_.F)
      base == [i \in DOMAIN red |-> BaseOut(red[i], x_, ie, st.mask, dim_size_)]
      berr == {i \in DOMAIN red : base[i].err # ""}
      m == MeanRes(aggr_index_, lks, [i \in DOMAIN red |-> base[i].slot], st.count)
      v == VarRes(aggr_index_, lks, m.outs, st.count, x_, ie, dim_size_)
      s == StdRes(aggr_index_, lks, v.outs, st.count, x_, ie, dim_size_)
      Fail(e) == [err |-> e, outs |-> <<>>, out |-> <<>>]
  IN IF x_.dim # 2 THEN Fail("ValueError")
     ELSE IF st.err # "" THEN Fail(st.err)
     ELSE IF berr # {} THEN Fail(base[CHOOSE i \in berr : \A k \in berr : i <= k].err)
     ELSE IF m.err # "" THEN Fail(m.err)
     ELSE IF v.err # "" THEN Fail(v.err)
     ELSE IF s.err # "" THEN Fail(s.err)
     ELSE IF CatFails(s.outs) THEN Fail("TypeError")
     ELSE [err |-> "", outs |-> s.outs, out |-> Cat(s.outs, dim_size_)]

\* ---------------------------------------------------------------- state
VARIABLES
  pc,            \* where the engine's caller is: construction, a forward step
  error,         \* the exception a raise left, "" if none
  aggrs,         \* the list handed to __init__
  aggr_cls, aggr_index, need_degree, requires_mask, reduce_ops, lookup_ops,
  x, index, dim_size,               \* the caller's arguments of forward
  count, mask, index_e, outs, out,  \* locals of forward
  calls,         \* forward invocations started on this engine
  passes,        \* scatter_reduce_ passes of this invocation, per reduction
  reads,         \* entries of outs read through a lookup in this invocation
  steps          \* steps this invocation has run, in order

plan == <<aggr_cls, aggr_index, need_degree, requires_mask, reduce_ops, lookup_ops>>
args == <<x, index, dim_size>>
locals == <<count, mask, index_e, outs, out>>
ghost == <<passes, reads, steps>>
vars == <<pc, error, aggrs, plan, args, locals, calls, ghost>>

PassOps == {"sum", "pow_sum", "amin", "amax", "prod"}
NoPasses == [op \in PassOps |-> 0]
NoX == [dim |-> 0, F |-> 0, rows |-> <<>>]

\* Lists __init__ is called with.
AggrLists == UNION {[1..k -> AllAggrs] : k \in 0..MaxAggrs}

\* Feature tensors forward is called with: n rows of F entries.
Features(d, n, F) == {[dim |-> d, F |-> F, rows |-> rows] :
                        rows \in [1..n -> [1..F -> {Num(v, 1) : v \in Vals}]]}

\* Index vectors forward is called with: up to one entry more or less than
\* x has rows, entries up to dim_size (one past the last row of out).
Indices(n, G) == UNION {[1..m -> 0..G] : m \in {k \in 0..MaxN : k - n \in {-1, 0, 1}}}

NoFrame ==
  /\ x = NoX /\ index = <<>> /\ dim_size = 0
  /\ count = Unset /\ mask = Unset /\ index_e = <<>> /\ outs = <<>> /\ out = Unset
  /\ passes = NoPasses /\ reads = {} /\ steps = <<>>

Init ==
  /\ pc = "new" /\ error = "" /\ aggrs = <<>>
  /\ aggr_cls = <<>> /\ aggr_index = AggrIndex(<<>>)
  /\ need_degree = FALSE /\ requires_mask = FALSE
  /\ reduce_ops = <<>> /\ lookup_ops = <<>>
  /\ calls = 0
  /\ NoFrame

\* FusedAggregation(aggrs): __init__, lines 63-147.
Construct ==
  /\ pc = "new"
  /\ \E a \in AggrLists :
       /\ aggrs' = a
       /\ IF ConstructFails(a) THEN
            /\ pc' = "config_error" /\ error' = "ValueError"
            /\ IF Len(a) = 0 THEN UNCHANGED <<aggr_cls, aggr_index>>
               ELSE aggr_cls' = a /\ aggr_index' = AggrIndex(a)
            /\ UNCHANGED <<need_degree, requires_mask, reduce_ops, lookup_ops>>
          ELSE
            /\ pc' = "idle" /\ error' = ""
            /\ aggr_cls' = a /\ aggr_index' = AggrIndex(a)
            /\ need_degree' = NeedDegree(a)
            /\ requires_mask' = RequiresMask(a)
            /\ reduce_ops' = ReduceOps(a)
            /\ lookup_ops' = LookupOps(a)
  /\ UNCHANGED <<args, locals, calls, ghost>>

\* The caller invokes forward(x, index, dim_size=dim_size) on the engine.
Call ==
  /\ pc = "idle" /\ calls < MaxCalls
  /\ \E d \in XDims, n \in 0..MaxN, F \in 1..MaxF, G \in 1..MaxG :
       \E xx \in Features(d, n, F), ix \in Indices(n, G) :
         /\ x' = xx /\ index' = ix /\ dim_size' = G
  /\ pc' = "check" /\ calls' = calls + 1
  /\ UNCHANGED <<error, aggrs, plan, locals, ghost>>

\* Lines 155-156: assert_index_present, assert_two_dimensional_input.
TwoDimensional(xx) == xx.dim = 2

Check ==
  /\ pc = "check"
  /\ IF TwoDimensional(x) THEN pc' = "stats" /\ error' = ""
     ELSE pc' = "raised" /\ error' = "ValueError"
  /\ UNCHANGED <<aggrs, plan, args, locals, calls, ghost>>

\* Lines 158-170: count, mask, num_feats and the expanded index.
Stats ==
  /\ pc = "stats"
  /\ LET st == GroupStats(need_degree, requires_mask, x, index, dim_size)
     IN /\ count' = st.count /\ mask' = st.mask
        /\ IF st.err # "" THEN
             /\ pc' = "raised" /\ error' = st.err /\ index_e' = index_e
           ELSE
             /\ pc' = IF Len(reduce_ops) = 0 THEN "mean" ELSE "base"
             /\ error' = ""
             /\ index_e' = Expand(index, x.F)
  /\ steps' = Append(steps, "stats")
  /\ UNCHANGED <<aggrs, plan, args, outs, out, calls, passes, reads>>

\* BaseReduce that squares x in place (x.mul_(x)) for a 'pow_sum' reduce.
BaseReduce_InPlace ==
  /\ pc = "base"
  /\ LET i == Len(outs) + 1
         b == BaseOut(reduce_ops[i], x, index_e, mask, dim_size)
         ran == reduce_ops[i] # NoneOp /\ b.err # "RuntimeError"
     IN /\ passes' = IF ran THEN [passes EXCEPT ![reduce_ops[i]] = @ + 1] ELSE passes
        /\ x' = IF reduce_ops[i] = "pow_sum" THEN [x EXCEPT !.rows = Src("pow_sum", x)] ELSE x
        /\ IF b.err # "" THEN
             /\ pc' = "raised" /\ error' = b.err /\ outs' = outs
           ELSE
             /\ outs' = Append(outs, b.slot)
             /\ pc' = IF i = Len(reduce_ops) THEN "mean" ELSE "base"
             /\ error' = ""
  /\ steps' = Append(steps, "base")
  /\ UNCHANGED <<aggrs, plan, index, dim_size, count, mask, index_e, out, calls, reads>>

\* Lines 177-198: one iteration of the loop over self.reduce_ops.
BaseReduce ==
  /\ pc = "base"
  /\ LET i == Len(outs) + 1
         b == BaseOut(reduce_ops[i], x, index_e, mask, dim_size)
         ran == reduce_ops[i] # NoneOp /\ b.err # "RuntimeError"
     IN /\ passes' = IF ran THEN [passes EXCEPT ![reduce_ops[i]] = @ + 1] ELSE passes
        /\ IF b.err # "" THEN
             /\ pc' = "raised" /\ error' = b.err /\ outs' = outs
           ELSE
             /\ outs' = Append(outs, b.slot)
             /\ pc' = IF i = Len(reduce_ops) THEN "mean" ELSE "base"
             /\ error' = ""
  /\ steps' = Append(steps, "base")
  /\ UNCHANGED <<aggrs, plan, args, count, mask, index_e, out, calls, reads>>

\* A derivation step: it writes outs and moves on, or raises.
Derive(res, name, next) ==
  /\ IF res.err # "" THEN pc' = "raised" /\ error' = res.err /\ outs' = outs
     ELSE pc' = next /\ error' = "" /\ outs' = res.outs
  /\ reads' = reads \cup res.reads
  /\ passes' = [passes EXCEPT !["sum"] = @ + res.sums]
  /\ steps' = Append(steps, name)
  /\ UNCHANGED <<aggrs, plan, args, count, mask, index_e, out, calls>>

\* Lines 203-212.
MeanStep ==
  /\ pc = "mean"
  /\ Derive(MeanRes(aggr_index, lookup_ops, outs, count), "mean", "var")

\* Lines 215-231.
VarStep ==
  /\ pc = "var"
  /\ Derive(VarRes(aggr_index, lookup_ops, outs, count, x, index_e, dim_size),
            "var", "std")

\* Lines 234-258.
StdStep ==
  /\ pc = "std"
  /\ Derive(StdRes(aggr_index, lookup_ops, outs, count, x, index_e, dim_size),
            "std", "cat")

\* Line 262: out = torch.cat(outs, dim=-1).
Assemble ==
  /\ pc = "cat"
  /\ IF CatFails(outs) THEN
       /\ pc' = "raised" /\ out' = out
       /\ error' = IF Len(outs) = 0 THEN "RuntimeError" ELSE "TypeError"
     ELSE
       /\ pc' = "done" /\ error' = "" /\ out' = Bound(Cat(outs, dim_size))
  /\ steps' = Append(steps, "cat")
  /\ UNCHANGED <<aggrs, plan, args, count, mask, index_e, outs, calls, passes, reads>>

\* The frame of forward is dropped: the arguments and locals are gone.
DropFrame ==
  /\ x' = NoX /\ index' = <<>> /\ dim_size' = 0
  /\ count' = Unset /\ mask' = Unset /\ index_e' = <<>> /\ outs' = <<>> /\ out' = Unset
  /\ passes' = NoPasses /\ reads' = {} /\ steps' = <<>>

\* Line 264: return out.
Return ==
  /\ pc = "done"
  /\ pc' = "idle" /\ error' = ""
  /\ DropFrame
  /\ UNCHANGED <<aggrs, plan, calls>>

\* The exception leaves forward and reaches the caller.
Propagate ==
  /\ pc = "raised"
  /\ pc' = "idle" /\ error' = ""
  /\ DropFrame
  /\ UNCHANGED <<aggrs, plan, calls>>

Next ==
  \/ Construct
  \/ Call
  \/ Check
  \/ Stats
  \/ BaseReduce
  \/ MeanStep
  \/ VarStep
  \/ StdStep
  \/ Assemble
  \/ Return
  \/ Propagate

Spec == Init /\ [][Next]_vars

\* ------------------------------------------------------------- properties
InForward == pc \in {"check", "stats", "base", "mean", "var", "std", "cat", "done", "raised"}
Ended == pc \in {"done", "raised"}
Constructed == pc \notin {"new", "config_error"}

\* The arguments meet the input contract: a 2-dimensional x, one index
\* entry per row of x, every entry in [0, dim_size).
ValidInput ==
  /\ x.dim = 2
  /\ Len(index) = Len(x.rows)
  /\ \A r \in DOMAIN index : 0 <= index[r] /\ index[r] < dim_size

Distinct(s) == \A i, k \in DOMAIN s : s[i] = s[k] => i = k

Requested(cls) == \E p \in DOMAIN aggr_cls : aggr_cls[p] = cls

\* Number of elements assigned to group g (row g of the output, group g - 1).
GroupSize(g) == Cardinality({r \in DOMAIN index : index[r] = g - 1})

EmptyGroups == {g \in 1..dim_size : GroupSize(g) = 0}

\* Entry c of block p in row g of the concatenated output.
Block(p, g, c) == out.v[g][(p - 1) * x.F + c]

\* The engine configured with the kind at position p alone, on this input.
Alone(p) == Forward(<<aggr_cls[p]>>, x, index, dim_size)

\* C1: every group without elements gets an all-zero output row, in the
\* block of every requested kind.
C1_EmptyGroupZero ==
  (pc = "done" /\ ValidInput) =>
    \A g \in EmptyGroups : \A c \in DOMAIN out.v[g] : out.v[g][c] = Zero

\* C2: for a valid input and a list of distinct kinds, the block the fused
\* engine returns for a kind equals what the engine configured with that
\* kind alone returns, whatever slot the plan made it reuse.
C2_FusedEqualsAlone ==
  (Ended /\ ValidInput /\ Distinct(aggr_cls)) =>
    /\ pc = "done"
    /\ \A p \in DOMAIN aggr_cls :
         /\ Alone(p).err = ""
         /\ outs[p] = Alone(p).outs[1]
         /\ \A g \in 1..dim_size : \A c \in 1..x.F : Block(p, g, c) = Alone(p).out[g][c]

\* C2 witness: a fused run where StdDev was taken from Variance's slot and a
\* group has two elements.
C2_Witness ==
  /\ pc = "done" /\ ValidInput /\ Distinct(aggr_cls)
  /\ \E p \in DOMAIN aggr_cls :
       aggr_cls[p] = StdAggregation /\ lookup_ops[p].cls = VarAggregation
  /\ \E g \in 1..dim_size : GroupSize(g) = 2

\* C3: for every non-empty list of K fusable kinds (repeats allowed) forward
\* returns dim_size rows of F*K entries, block k holding the finished
\* aggregation of the k-th requested kind.
C3_BlocksInOrder ==
  (Ended /\ ValidInput) =>
    /\ pc = "done"
    /\ Len(out.v) = dim_size
    /\ \A g \in 1..dim_size :
         /\ Len(out.v[g]) = x.F * Len(aggr_cls)
         /\ \A p \in DOMAIN aggr_cls : \A c \in 1..x.F :
              Block(p, g, c) = Alone(p).out[g][c]

\* C4: construction fails with a configuration error exactly when the list
\* is empty or names a kind outside the seven fusable ones; nothing of the
\* plan is recorded and forward never runs on the engine.
C4_ConfigErrorEager ==
  (pc # "new") =>
    LET bad == Len(aggrs) = 0 \/
               \E i \in DOMAIN aggrs :
                 aggrs[i] \notin {"Sum", "Mean", "Min", "Max", "Mul", "Var", "Std"}
    IN /\ bad <=> pc = "config_error"
       /\ bad => /\ error = "ValueError"
                 /\ reduce_ops = <<>> /\ lookup_ops = <<>>
                 /\ calls = 0 /\ NoFrame

\* C4 witness: a list with a fusable and a non-fusable kind was rejected.
C4_Witness ==
  /\ pc = "config_error"
  /\ Len(aggrs) = 2 /\ aggrs[1] = SumAggregation /\ aggrs[2] = MedianAggregation

\* C5: an invocation whose arguments break the input contract raises, with
\* no count, mask or grouped reduce done and no output.
C5_ShapeErrorEager ==
  (InForward /\ ~ValidInput) =>
    /\ pc # "done"
    /\ ~count.set /\ ~mask.set /\ passes = NoPasses /\ outs = <<>> /\ ~out.set

\* C6: within one invocation each grouped-reduce pass (sum, sum of squares,
\* minimum, maximum, product) runs at most once, counting the passes the
\* Variance and StdDev steps run themselves.
C6_EachPassOnce == \A op \in PassOps : passes[op] <= 1

Rank(step) ==
  CASE step = "stats" -> 0
    [] step = "base" -> 1
    [] step = "mean" -> 2
    [] step = "var" -> 3
    [] step = "std" -> 4
    [] step = "cat" -> 5

RECURSIVE GroupTotal(_, _, _, _)
\* Sum over the elements of group g, from row r on, of the entry in column
\* c (squared if sq).
GroupTotal(g, c, r, sq) ==
  IF r > Len(index) THEN Zero
  ELSE VAdd(IF index[r] # g - 1 THEN Zero
            ELSE IF sq THEN VMul(x.rows[r][c], x.rows[r][c]) ELSE x.rows[r][c],
            GroupTotal(g, c, r + 1, sq))

Divisor(g) == IF GroupSize(g) = 0 THEN 1 ELSE GroupSize(g)

\* The finished value of a kind that other kinds look up.
Finished(cls, g, c) ==
  LET mean == VDiv(GroupTotal(g, c, 1, FALSE), Divisor(g))
  IN CASE cls = "Sum" -> GroupTotal(g, c, 1, FALSE)
       [] cls = "Mean" -> mean
       [] cls = "Var" -> VSub(VDiv(GroupTotal(g, c, 1, TRUE), Divisor(g)), VMul(mean, mean))

\* C9: the steps of an invocation run in the order base reductions, Mean,
\* Variance, StdDev, each derivation step at most once, and every slot a
\* derivation step reads through its lookup holds the finished value of the
\* looked-up kind: the group sums, sum / clamped count, or
\* pow_sum / count - mean^2.
C9_LookupReadsFinished ==
  /\ \A a, b \in DOMAIN steps : a < b =>
       /\ Rank(steps[a]) <= Rank(steps[b])
       /\ Rank(steps[a]) = Rank(steps[b]) => steps[a] = "base"
  /\ \A rd \in reads :
       /\ rd.cls \in {"Sum", "Mean", "Var"}
       /\ aggr_cls[rd.j] = rd.cls
       /\ rd.slot.set
       /\ \A g \in 1..dim_size : \A c \in 1..x.F :
            rd.slot.v[g][c] = Finished(rd.cls, g, c)

\* C9 witness: Variance read Mean's slot, which Mean had filled from its own
\* sum, for a group of two different elements.
C9_Witness ==
  /\ pc = "cat"
  /\ \E rd \in reads : rd.by = "Var" /\ rd.cls = "Mean"
  /\ \E g \in 1..dim_size : \E c \in 1..x.F :
       GroupSize(g) = 2 /\ Finished("Var", g, c) # Zero

\* C10: the count, once taken, is max(1, size of the group) for every group;
\* the mask, once taken, marks exactly the groups without elements; and both
\* are bound when a step reads them: the count while a degree-based kind is
\* still to be derived, the mask before a min, max or product reduce.
C10_CountAndMask ==
  /\ count.set =>
       /\ Len(count.v) = dim_size
       /\ \A g \in 1..dim_size :
            count.v[g] = (IF GroupSize(g) > 1 THEN GroupSize(g) ELSE 1)
  /\ mask.set =>
       /\ Len(mask.v) = dim_size
       /\ \A g \in 1..dim_size : mask.v[g] <=> (GroupSize(g) = 0)
  /\ (pc \in {"base", "mean", "var", "std"} /\
      (Requested("Mean") \/ Requested("Var") \/ Requested("Std"))) => count.set
  /\ (pc = "base" /\ reduce_ops[Len(outs) + 1] \in {"amin", "amax", "prod"}) => mask.set
  /\ error # "UnboundLocalError"

\* C10 witness: count and mask were both taken for an input with an empty
\* group and a group of two.
C10_Witness ==
  /\ pc = "base" /\ count.set /\ mask.set
  /\ \E g \in 1..dim_size : GroupSize(g) = 0 /\ count.v[g] = 1 /\ mask.v[g]
  /\ \E g \in 1..dim_size : GroupSize(g) = 2

\* C10 witness, second path: the mask was built from the index array.
C10_WitnessIndexMask ==
  /\ pc = "base" /\ ~count.set /\ mask.set
  /\ \E g \in 1..dim_size : mask.v[g]

====
